---- MODULE Spec2Model ----
(***************************************************************************)
(* A model of labutils: biomass.load_tecan, biomass.get_dw_df,             *)
(* models.gompertz and models.get_growth_rates.                            *)
(*                                                                         *)
(* Each function is a small state machine over its own variables; the      *)
(* specifications SpecTecan, SpecDw, SpecFit and SpecGompertz run one      *)
(* function each and leave the variables of the others untouched.          *)
(***************************************************************************)
EXTENDS Integers, Sequences, FiniteSets, TLC

VARIABLES
    \* load_tecan
    tc_pc,          \* "idle" | "loop" | "done"
    files,          \* the files argument: a sequence of paths
    n_wells,        \* rows read per sheet
    keys_options,   \* "None" or "given"
    fidx,           \* index of the next file of the for loop
    sheets_read,    \* what read_excel delivered so far: file -> sequence of sheets
    files_dict,     \* sequence of per-file tables, in loop order
    od_df,          \* the returned table
    tc_status,      \* "running" | "returned" | "IndexError"
    \* get_dw_df
    dw_pc,          \* "idle" | "filter" | "aggregate" | "time" | "done"
    dw_raw,         \* the table load_excel delivered: rows (type, biomass, date)
    dw_df,          \* the local dw_df, and at the end the returned table
    dw_status,      \* "running" | "returned" | "IndexError"
    \* get_growth_rates
    fit_pc,         \* "idle" | "fit" | "open" | "export" | "close" | "return" | "done"
    biomass_df,     \* [time, cols]: the time column and the channel columns by name
    wavelengths,    \* the argument: NoList or [none |-> FALSE, list |-> channel names]
    x0,             \* the argument: NoTriple or <<A, B, C>>
    xmin,           \* the argument: NoTriple or <<Amin, Bmin, Cmin>>
    out_dir,        \* the argument: "None", "" or a directory
    widx,           \* index of the next element of the running for loop
    fit_results,    \* the dict, as the sequence of its entries in insertion order
    sheets,         \* the sheets added to the open workbook
    disk,           \* the files written to persistent storage
    fit_status,     \* "running" | "returned" | "ColumnNotFoundError"
    \* gompertz
    g_pc,           \* "idle" | "call" | "done"
    g_t, g_A, g_B, g_C,   \* the arguments, in units of 1 / SCALE
    g_val           \* the value returned, in units of 1 / SCALE

tecanVars == <<tc_pc, files, n_wells, keys_options, fidx, sheets_read,
               files_dict, od_df, tc_status>>

dwVars == <<dw_pc, dw_raw, dw_df, dw_status>>

fitVars == <<fit_pc, biomass_df, wavelengths, x0, xmin, out_dir, widx,
             fit_results, sheets, disk, fit_status>>

gzVars == <<g_pc, g_t, g_A, g_B, g_C, g_val>>

vars == <<tecanVars, dwVars, fitVars, gzVars>>

\* --------------------------------------------------------------- helpers

RECURSIVE GCD(_, _)
GCD(a, b) == IF b = 0 THEN a ELSE GCD(b, a % b)

\* A float quotient n / d, kept exact as a fraction in lowest terms (d > 0).
Frac(n, d) ==
    LET g == GCD(IF n < 0 THEN -n ELSE n, d)
    IN  IF n = 0 THEN [num |-> 0, den |-> 1]
        ELSE [num |-> n \div g, den |-> d \div g]

FracLeq(x, y) == x.num * y.den <= y.num * x.den

Reverse(s) == [i \in 1..Len(s) |-> s[Len(s) + 1 - i]]

RECURSIVE Flatten(_)
Flatten(ss) == IF ss = <<>> THEN <<>> ELSE Head(ss) \o Flatten(Tail(ss))

RECURSIVE SetToSeq(_)
SetToSeq(S) ==
    IF S = {} THEN <<>>
    ELSE LET x == CHOOSE y \in S : TRUE IN <<x>> \o SetToSeq(S \ {x})

\* ------------------------------------------------------------ load_tecan

\* Bound: the largest n_wells (rows of the absorbance block) explored.
MaxWells == 2

FileNames == <<"plate_a.xlsx", "plate_b.xlsx">>
SheetNames == <<"Sheet1", "Sheet2">>
SampleIds == {"culture"}

\* The cell B28 of a sheet, "MM/DD/YYYY hh:mm:ss AM/PM", by the fields that vary.
RawDates ==
    { [day |-> 1, hour |-> 12, pm |-> FALSE],     \* 01/01/2024 12:00:00 AM
      [day |-> 1, hour |-> 6,  pm |-> TRUE],      \* 01/01/2024 06:00:00 PM
      [day |-> 2, hour |-> 12, pm |-> TRUE] }     \* 01/02/2024 12:00:00 PM

NoSample == "no_sample"
NoTime == "no_time"

\* str.to_datetime("%m/%d/%Y %I:%M:%S %p"), in seconds since 01/01/2024 00:00:00:
\* %I is the 12-hour clock, where 12 AM is hour 0 and 12 PM is hour 12.
to_datetime(raw) ==
    (raw.day - 1) * 86400
    + ((raw.hour % 12) + (IF raw.pm THEN 12 ELSE 0)) * 3600

\* The key block of a sheet of n wells: rows (well, sample) for any of the wells.
KeyBatches(n) == SUBSET ((1..n) \X SampleIds)

\* What the three read_excel calls deliver for one sheet of n wells.
SheetContents(n) == [date : RawDates, keys : KeyBatches(n)]

\* The absorbance block of sheet s of file f: n rows, "Wavel." renamed to well.
ReadAbsorbance(f, s, n) ==
    [w \in 1..n |-> [file |-> f, sheet |-> s, well |-> w,
                     sample |-> NoSample, date |-> -1, time |-> NoTime]]

\* df.join with how = "left": a row without a partner is kept, sample absent.
JoinLeft(df, v) ==
    Flatten([i \in 1..Len(df) |->
        LET m == {k \in v : k[1] = df[i].well}
        IN  IF m = {} THEN <<df[i]>>
            ELSE [j \in 1..Cardinality(m) |->
                    [df[i] EXCEPT !.sample = SetToSeq(m)[j][2]]]])

\* df.join(v, on="well"): polars joins with how = "inner" by default, one output
\* row per (row, key row) pair with equal well.
Join(df, v) ==
    Flatten([i \in 1..Len(df) |->
        LET m == SetToSeq({k \in v : k[1] = df[i].well})
        IN  [j \in 1..Len(m) |-> [df[i] EXCEPT !.sample = m[j][2]]]])

\* with_columns(date = v[0, 0])
WithDate(df, d) == [i \in 1..Len(df) |-> [df[i] EXCEPT !.date = d]]

\* One iteration of "for f in files": the table stored in files_dict[f].
LoadSheet(f, s, c, n, ko) ==
    LET abs == ReadAbsorbance(f, s, n)
        joined == IF ko = "given" THEN Join(abs, c.keys) ELSE abs
    IN  WithDate(joined, to_datetime(c.date))

LoadedFile(f, content, n, ko) ==
    Flatten([s \in 1..Len(content) |-> LoadSheet(f, s, content[s], n, ko)])

\* Insertion of row r into a table sorted by date, after the rows of equal date.
RECURSIVE InsertByDate(_, _)
InsertByDate(sorted, r) ==
    IF sorted = <<>> THEN <<r>>
    ELSE IF Head(sorted).date <= r.date
         THEN <<Head(sorted)>> \o InsertByDate(Tail(sorted), r)
         ELSE <<r>> \o sorted

RECURSIVE StableSort(_)
StableSort(df) ==
    IF df = <<>> THEN <<>>
    ELSE InsertByDate(StableSort(SubSeq(df, 1, Len(df) - 1)), df[Len(df)])

\* SortByDate with the sort forgotten: the concatenation left as it is.
SortByDateNone(df, ties) == df

\* DataFrame.sort("date"): ascending; the order of rows of equal date is not
\* guaranteed (maintain_order = False), so ties come out in either direction.
SortByDate(df, ties) ==
    IF ties = "kept" THEN StableSort(df) ELSE StableSort(Reverse(df))

\* RefDate taken before the sort: the date of the first row read.
RefDateFirstRead(sorted, unsorted) == unsorted[1].date

\* od_df[0, -1]: the last column (date) of the first row of the sorted table.
RefDate(sorted, unsorted) == sorted[1].date

\* (date - ref).dt.total_seconds() / (3600 * 24)
Elapsed(date, ref) == Frac(date - ref, 3600 * 24)

WithTime(df, ref) == [i \in 1..Len(df) |-> [df[i] EXCEPT !.time = Elapsed(df[i].date, ref)]]

TecanIdle ==
    /\ tc_pc = "idle" /\ files = <<>> /\ n_wells = 0 /\ keys_options = "None"
    /\ fidx = 0 /\ sheets_read = <<>> /\ files_dict = <<>> /\ od_df = <<>>
    /\ tc_status = "running"

DwIdle == dw_pc = "idle" /\ dw_raw = <<>> /\ dw_df = <<>> /\ dw_status = "running"

\* An argument left at its default None.
NoList == [none |-> TRUE, list |-> <<>>]
NoTriple == <<>>

FitIdle ==
    /\ fit_pc = "idle" /\ biomass_df = <<>> /\ wavelengths = NoList /\ x0 = NoTriple
    /\ xmin = NoTriple /\ out_dir = "None" /\ widx = 0 /\ fit_results = <<>>
    /\ sheets = {} /\ disk = {} /\ fit_status = "running"

GzIdle == g_pc = "idle" /\ g_t = 0 /\ g_A = 0 /\ g_B = 0 /\ g_C = 0 /\ g_val = 0

\* load_tecan(files, n_wells, keys_options) is entered.
TecanInit ==
    /\ tc_pc = "loop"
    /\ files \in {SubSeq(FileNames, 1, k) : k \in 1..Len(FileNames)}
    /\ n_wells \in 1..MaxWells
    /\ keys_options \in {"None", "given"}
    /\ fidx = 1
    /\ sheets_read = <<>>
    /\ files_dict = <<>>
    /\ od_df = <<>>
    /\ tc_status = "running"
    /\ DwIdle /\ FitIdle /\ GzIdle

\* The body of "for f in files" for the next file, whose workbook holds one or
\* more sheets.
LoadFile ==
    /\ tc_pc = "loop"
    /\ fidx <= Len(files)
    /\ \E k \in 1..Len(SheetNames) : \E content \in [1..k -> SheetContents(n_wells)] :
        \* the key block is read only under keys_options
        /\ keys_options = "None" => \A s \in 1..k : content[s].keys = {}
        /\ sheets_read' = Append(sheets_read, content)
        /\ files_dict' = Append(files_dict, LoadedFile(fidx, content, n_wells, keys_options))
    /\ fidx' = fidx + 1
    /\ UNCHANGED <<tc_pc, files, n_wells, keys_options, od_df, tc_status>>
    /\ UNCHANGED <<dwVars, fitVars, gzVars>>

\* Lines 96-98 on a table with rows: concat, sort, elapsed time, return.
SortAndReturn ==
    /\ tc_pc = "loop"
    /\ fidx > Len(files)
    /\ Flatten(files_dict) # <<>>
    /\ \E ties \in {"kept", "reversed"} :
        LET all == Flatten(files_dict)
            sorted == SortByDate(all, ties)
        IN  od_df' = WithTime(sorted, RefDate(sorted, all))
    /\ tc_status' = "returned"
    /\ tc_pc' = "done"
    /\ UNCHANGED <<files, n_wells, keys_options, fidx, sheets_read, files_dict>>
    /\ UNCHANGED <<dwVars, fitVars, gzVars>>

\* Line 97 on a table without rows: od_df[0, -1] is out of bounds.
SortAndRaise ==
    /\ tc_pc = "loop"
    /\ fidx > Len(files)
    /\ Flatten(files_dict) = <<>>
    /\ tc_status' = "IndexError"
    /\ tc_pc' = "done"
    /\ UNCHANGED <<files, n_wells, keys_options, fidx, sheets_read, files_dict, od_df>>
    /\ UNCHANGED <<dwVars, fitVars, gzVars>>

TecanNext == LoadFile \/ SortAndReturn \/ SortAndRaise

SpecTecan == TecanInit /\ [][TecanNext]_vars

\* ---------------------------------------------------- load_tecan: claims

Returned == tc_status = "returned"

SortedByDate(df) == \A i \in 1..(Len(df) - 1) : df[i].date <= df[i + 1].date

\* Every sheet delivered by read_excel, as <<file, sheet>>.
SheetsRead == {<<f, s>> : f \in 1..Len(sheets_read), s \in 1..Len(SheetNames)}
                \cap {p \in (1..Len(FileNames)) \X (1..Len(SheetNames)) :
                        p[1] <= Len(sheets_read) /\ p[2] <= Len(sheets_read[p[1]])}

SheetDate(p) == to_datetime(sheets_read[p[1]][p[2]].date)

MinOf(S) == CHOOSE m \in S : \A x \in S : m <= x

\* The earliest batch timestamp over all sheets of all input files.
GlobalEarliest == MinOf({SheetDate(p) : p \in SheetsRead})

\* The earliest timestamp among the rows of the returned table.
EarliestReturned == MinOf({od_df[i].date : i \in 1..Len(od_df)})

\* The wells of sheet p that the key block of p names.
KeysFor(p, w) == {k \in sheets_read[p[1]][p[2]].keys : k[1] = w}

RowsOf(p, w) == {i \in 1..Len(od_df) :
                    od_df[i].file = p[1] /\ od_df[i].sheet = p[2] /\ od_df[i].well = w}

\* C1: the table load_tecan returns is sorted ascending by timestamp, the elapsed
\* time of its first row is 0, and elapsed time never decreases from a row to
\* the next.
C1_SortedFromZero ==
    Returned =>
        /\ SortedByDate(od_df)
        /\ od_df[1].time = [num |-> 0, den |-> 1]
        /\ \A i \in 1..(Len(od_df) - 1) : FracLeq(od_df[i].time, od_df[i + 1].time)

\* C1 witness: two files were pooled, their concatenation was not in date order,
\* and the returned table spans more than one timestamp.
C1_Witness ==
    /\ Returned
    /\ Len(files) = 2
    /\ ~SortedByDate(Flatten(files_dict))
    /\ od_df[Len(od_df)].time # [num |-> 0, den |-> 1]

\* C7 as stated: under keys_options, a reading row whose well has no match in the
\* key batch of its sheet is still in the returned table, its sample absent.
C7_UnmatchedRowsKept ==
    (Returned /\ keys_options = "given") =>
        \A p \in SheetsRead : \A w \in 1..n_wells :
            KeysFor(p, w) = {} =>
                \E i \in RowsOf(p, w) : od_df[i].sample = NoSample

\* C7 amended: under keys_options the returned table holds exactly one row per
\* (reading row, key row of its sheet with the same well); a reading row without
\* a match is absent, and every returned row carries a sample identity.
C7_UnmatchedRowsDropped ==
    (Returned /\ keys_options = "given") =>
        /\ \A p \in SheetsRead : \A w \in 1..n_wells :
              Cardinality(RowsOf(p, w)) = Cardinality(KeysFor(p, w))
        /\ \A i \in 1..Len(od_df) :
              \E k \in KeysFor(<<od_df[i].file, od_df[i].sheet>>, od_df[i].well) :
                  od_df[i].sample = k[2]

\* C7 witness: a call with keys_options returned, one reading had no match in its
\* key batch and another one had.
C7_Witness ==
    /\ Returned
    /\ keys_options = "given"
    /\ \E p \in SheetsRead : \E w \in 1..n_wells : KeysFor(p, w) = {}
    /\ \E p \in SheetsRead : \E w \in 1..n_wells : KeysFor(p, w) # {}

\* C8 as stated: the elapsed time of every returned row is its timestamp minus
\* the earliest timestamp over all sheets of all input files, in seconds / 86400.
C8_ElapsedFromGlobalEarliest ==
    Returned =>
        \A i \in 1..Len(od_df) :
            od_df[i].time = Frac(od_df[i].date - GlobalEarliest, 86400)

\* C8 amended: the elapsed time of every returned row is its timestamp minus the
\* earliest timestamp among the rows of the returned table (pooled over all
\* files), in seconds / 86400; without keys_options, where every sheet
\* contributes rows, that is the earliest timestamp over all sheets of all files.
C8_ElapsedFromEarliestReturned ==
    Returned =>
        /\ \A i \in 1..Len(od_df) :
              od_df[i].time = Frac(od_df[i].date - EarliestReturned, 86400)
        /\ keys_options = "None" => EarliestReturned = GlobalEarliest

\* C8 witness: the earliest timestamp is in the second file only, so neither the
\* first file read nor a row's own file gives the reference, and some elapsed
\* time is a fraction of a day.
C8_Witness ==
    /\ Returned
    /\ Len(files) = 2
    /\ \A i \in 1..Len(od_df) : od_df[i].file = 1 => od_df[i].date > EarliestReturned
    /\ \E i \in 1..Len(od_df) : od_df[i].file = 1
    /\ \E i \in 1..Len(od_df) : od_df[i].time.den > 1

\* ------------------------------------------------------------- get_dw_df

\* Bound: the largest number of rows of the dry-weight sheet explored.
MaxRows == 3

SampleTypes == {"VSS", "TSS"}
Concentrations == {1, 2}            \* "Biomass (g/L)"
DwDates == {10, 20, 30}             \* the date column, in its own units

\* The value of an aggregate that has none: the quotient 0 / 0.
Undefined == [sqrt_of |-> [num |-> 0, den |-> 0]]

DwRows == [type : SampleTypes, biomass : Concentrations, date : DwDates]

RECURSIVE SeqsUpTo(_, _)
SeqsUpTo(S, n) ==
    IF n = 0 THEN {<<>>}
    ELSE LET shorter == SeqsUpTo(S, n - 1)
         IN  shorter \cup {Append(q, x) : q \in {r \in shorter : Len(r) = n - 1}, x \in S}

RECURSIVE SumSeq(_)
SumSeq(xs) == IF xs = <<>> THEN 0 ELSE Head(xs) + SumSeq(Tail(xs))

SumSq(xs) == SumSeq([i \in 1..Len(xs) |-> xs[i] * xs[i]])

\* dw_df.filter(pl.col("type") == "VSS")
IsVSS(r) == r.type = "VSS"
FilterVSS(df) == SelectSeq(df, IsVSS)

\* pl.mean over the values of one group (a group has at least one row).
Mean(xs) == Frac(SumSeq(xs), Len(xs))

\* Std with ddof = 0: the population standard deviation.
StdPopulation(xs) ==
    [sqrt_of |-> Frac(Len(xs) * SumSq(xs) - SumSeq(xs) * SumSeq(xs), Len(xs) * Len(xs))]

\* pl.std over the values of one group: the sample standard deviation
\* (ddof = 1), the square root of sum((x - mean)^2) / (n - 1); with n - 1 = 0
\* degrees of freedom there is no value.
Std(xs) ==
    IF Len(xs) <= 1 THEN Undefined
    ELSE [sqrt_of |-> Frac(Len(xs) * SumSq(xs) - SumSeq(xs) * SumSeq(xs),
                           Len(xs) * (Len(xs) - 1))]

\* The values of the rows of df dated d, in table order.
GroupValues(df, d) ==
    LET rows == SelectSeq(df, LAMBDA r : r.date = d)
    IN  [i \in 1..Len(rows) |-> rows[i].biomass]

\* group_by("date").agg(pl.mean(...), std = pl.std(...)): one row per distinct
\* date, in no guaranteed order; columns date, mean, std.
GroupByDate(df) ==
    SetToSeq({[date |-> d, mean |-> Mean(GroupValues(df, d)),
               std |-> Std(GroupValues(df, d)), time |-> NoTime]
              : d \in {df[i].date : i \in 1..Len(df)}})

\* with_columns(time = pl.col("date") - dw_df[0, 0]): a plain difference.
DwWithTime(df) == [i \in 1..Len(df) |-> [df[i] EXCEPT !.time = df[i].date - df[1].date]]

\* get_dw_df(file) is entered and load_excel has delivered the sheet.
DwInit ==
    /\ dw_pc = "filter"
    /\ dw_raw \in SeqsUpTo(DwRows, MaxRows)
    /\ dw_df = dw_raw
    /\ dw_status = "running"
    /\ TecanIdle /\ FitIdle /\ GzIdle

\* Lines 117-119.
DwFilter ==
    /\ dw_pc = "filter"
    /\ dw_df' = FilterVSS(dw_df)
    /\ dw_pc' = "aggregate"
    /\ UNCHANGED <<dw_raw, dw_status>>
    /\ UNCHANGED <<tecanVars, fitVars, gzVars>>

\* Lines 120-123: group, aggregate, sort by date.
DwAggregate ==
    /\ dw_pc = "aggregate"
    /\ dw_df' = StableSort(GroupByDate(dw_df))
    /\ dw_pc' = "time"
    /\ UNCHANGED <<dw_raw, dw_status>>
    /\ UNCHANGED <<tecanVars, fitVars, gzVars>>

\* Line 125 on a table with rows.
DwReturn ==
    /\ dw_pc = "time"
    /\ dw_df # <<>>
    /\ dw_df' = DwWithTime(dw_df)
    /\ dw_status' = "returned"
    /\ dw_pc' = "done"
    /\ UNCHANGED dw_raw
    /\ UNCHANGED <<tecanVars, fitVars, gzVars>>

\* Line 125 on a table without rows: dw_df[0, 0] is out of bounds.
DwRaise ==
    /\ dw_pc = "time"
    /\ dw_df = <<>>
    /\ dw_status' = "IndexError"
    /\ dw_pc' = "done"
    /\ UNCHANGED <<dw_raw, dw_df>>
    /\ UNCHANGED <<tecanVars, fitVars, gzVars>>

DwNext == DwFilter \/ DwAggregate \/ DwReturn \/ DwRaise

SpecDw == DwInit /\ [][DwNext]_vars

\* ----------------------------------------------------- get_dw_df: claims

DwDone == dw_pc = "done"

VSSRows == {i \in 1..Len(dw_raw) : dw_raw[i].type = "VSS"}
VSSDates == {dw_raw[i].date : i \in VSSRows}
VSSAt(d) == {i \in VSSRows : dw_raw[i].date = d}

RECURSIVE SumOver(_)
SumOver(I) ==
    IF I = {} THEN 0
    ELSE LET i == CHOOSE j \in I : TRUE IN dw_raw[i].biomass + SumOver(I \ {i})

\* C4 as stated: with no row of type "VSS" get_dw_df returns a zero-row table
\* and raises no error.
C4_EmptyReturnsZeroRows ==
    (DwDone /\ VSSRows = {}) => (dw_status = "returned" /\ Len(dw_df) = 0)

\* C5 as stated: get_dw_df returns one row per distinct timestamp among the VSS
\* rows, holding the mean of the VSS concentrations at that timestamp, sorted
\* ascending by timestamp, with elapsed time the timestamp minus the earliest
\* VSS timestamp, as a plain difference.
C5_OneRowPerVSSDate ==
    DwDone =>
        /\ dw_status = "returned"
        /\ Len(dw_df) = Cardinality(VSSDates)
        /\ {dw_df[i].date : i \in 1..Len(dw_df)} = VSSDates
        /\ \A i \in 1..(Len(dw_df) - 1) : dw_df[i].date < dw_df[i + 1].date
        /\ \A i \in 1..Len(dw_df) :
              /\ dw_df[i].mean.num * Cardinality(VSSAt(dw_df[i].date))
                    = SumOver(VSSAt(dw_df[i].date)) * dw_df[i].mean.den
              /\ dw_df[i].time = dw_df[i].date - MinOf(VSSDates)

\* The statement of C5 restricted to the tables that have a VSS row.
DwNonEmptyAsClaimed == VSSRows # {} => C5_OneRowPerVSSDate

\* C6: every timestamp with exactly one VSS replicate gets a row whose std is
\* undefined (not zero), and the call does not end in an error.
C6_SingleReplicateStdUndefined ==
    DwDone =>
        \A d \in VSSDates :
            Cardinality(VSSAt(d)) = 1 =>
                /\ dw_status = "returned"
                /\ \E i \in 1..Len(dw_df) : dw_df[i].date = d
                /\ \A i \in 1..Len(dw_df) : dw_df[i].date = d => dw_df[i].std = Undefined

\* C6 witness: a returned table with a single-replicate timestamp and a
\* timestamp with replicates, whose std is a value.
C6_Witness ==
    /\ DwDone /\ dw_status = "returned"
    /\ \E d \in VSSDates : Cardinality(VSSAt(d)) = 1
    /\ \E i \in 1..Len(dw_df) : dw_df[i].std # Undefined

\* ----------------------------------------------------- get_growth_rates

\* Bound: the longest wavelengths list explored.
MaxWavelengths == 2

ChannelNames == {"680", "800", "999"}
TimeColumn == <<0, 1, 2>>
ChannelData == {<<1, 2, 4>>, <<1, 1, 1>>}
OutDirs == {"None", "", "results"}
\* Parameter triples in units of 1 / 10: the defaults of lines 54 and 56, and a
\* caller's choice of each.
DefaultX0 == <<1, 1, 200>>
DefaultXmin == <<0, 0, 0>>
CallerX0 == <<5, 2, 100>>
CallerXmin == <<1, 0, 0>>

\* A table with the time column and any of the channel columns.
BiomassTables ==
    {[time |-> TimeColumn, cols |-> c] :
        c \in UNION {[names -> ChannelData] : names \in SUBSET ChannelNames}}

\* Lines 51-56: the defaults of the arguments left out.
EffWavelengths(w) == IF w.none THEN <<"800">> ELSE w.list
EffX0(x) == IF x = NoTriple THEN DefaultX0 ELSE x
EffXmin(x) == IF x = NoTriple THEN DefaultXmin ELSE x

\* fit_gompertz(t, y, A, B, C, xmin): a fresh Model(gompertz) with fresh
\* parameters, minimised by lmfit's deterministic least squares. The optimiser
\* is not computed here: the result is named by everything the call is given.
fit_gompertz(t, y, A, B, C, xmin_) ==
    [model |-> "gompertz", t |-> t, y |-> y, init |-> <<A, B, C>>, min |-> xmin_]

HasKey(d, k) == \E i \in 1..Len(d) : d[i].key = k
Lookup(d, k) == d[CHOOSE i \in 1..Len(d) : d[i].key = k].fit

\* d[k] = v on a dict: a new key goes to the end, a known key keeps its place.
DictSet(d, k, v) ==
    IF HasKey(d, k)
    THEN [i \in 1..Len(d) |-> IF d[i].key = k THEN [key |-> k, fit |-> v] ELSE d[i]]
    ELSE Append(d, [key |-> k, fit |-> v])

\* FitChannel with state shared between channels: the fit of a channel starts
\* from the data of the channel fitted before it, when there is one.
FitChannelWarmStart(results, df, wv, x, m) ==
    DictSet(results, wv,
            fit_gompertz(df.time, df.cols[wv],
                         IF results = <<>> THEN x[1] ELSE results[Len(results)].fit.y[1],
                         x[2], x[3], m))

\* Lines 61-62 for a channel wv that is a column of df.
FitChannel(results, df, wv, x, m) ==
    DictSet(results, wv, fit_gompertz(df.time, df.cols[wv], x[1], x[2], x[3], m))

\* Exports with the test of out_dir forgotten: the export always runs.
ExportsAlways(dir) == TRUE

\* "if out_dir:": None and the empty string are falsy.
Exports(dir) == dir # "None" /\ dir # ""

\* out_dir + "/best_fit.xlsx" and out_dir + f"/lmfit_{key}_report"
BestFitFile(dir) == [dir |-> dir, name |-> <<"best_fit.xlsx">>]
ReportFile(dir, k) == [dir |-> dir, name |-> <<"lmfit_", k, "_report">>]

\* get_growth_rates(biomass_df, wavelengths, x0, xmin, out_dir) is entered.
FitInit ==
    /\ fit_pc = "fit"
    /\ biomass_df \in BiomassTables
    /\ wavelengths \in {NoList} \cup {[none |-> FALSE, list |-> l] :
                                        l \in SeqsUpTo(ChannelNames, MaxWavelengths)}
    /\ x0 \in {NoTriple, CallerX0}
    /\ xmin \in {NoTriple, CallerXmin}
    /\ out_dir \in OutDirs
    /\ widx = 1
    /\ fit_results = <<>>
    /\ sheets = {}
    /\ disk = {}
    /\ fit_status = "running"
    /\ TecanIdle /\ DwIdle /\ GzIdle

NextWv == EffWavelengths(wavelengths)[widx]

\* Lines 60-62 for the next channel, a column of the table.
FitNext ==
    /\ fit_pc = "fit"
    /\ widx <= Len(EffWavelengths(wavelengths))
    /\ NextWv \in DOMAIN biomass_df.cols
    /\ fit_results' = FitChannel(fit_results, biomass_df, NextWv, EffX0(x0), EffXmin(xmin))
    /\ widx' = widx + 1
    /\ UNCHANGED <<fit_pc, biomass_df, wavelengths, x0, xmin, out_dir, sheets, disk, fit_status>>
    /\ UNCHANGED <<tecanVars, dwVars, gzVars>>

\* Line 61 for a channel that is no column: biomass_df[wv] raises, nothing
\* catches it, and the call ends without a result.
FitRaise ==
    /\ fit_pc = "fit"
    /\ widx <= Len(EffWavelengths(wavelengths))
    /\ NextWv \notin DOMAIN biomass_df.cols
    /\ fit_status' = "ColumnNotFoundError"
    /\ fit_pc' = "done"
    /\ UNCHANGED <<biomass_df, wavelengths, x0, xmin, out_dir, widx, fit_results, sheets, disk>>
    /\ UNCHANGED <<tecanVars, dwVars, gzVars>>

\* Line 64, and lines 65-66 when the export runs: the workbook is opened (its
\* file is written when it is closed).
EndOfLoop ==
    /\ fit_pc = "fit"
    /\ widx > Len(EffWavelengths(wavelengths))
    /\ fit_pc' = IF Exports(out_dir) THEN "export" ELSE "return"
    /\ widx' = 1
    /\ UNCHANGED <<biomass_df, wavelengths, x0, xmin, out_dir, fit_results, sheets, disk,
                   fit_status>>
    /\ UNCHANGED <<tecanVars, dwVars, gzVars>>

\* Lines 67-82 for the next entry of fit_results: the report file is written
\* and the best fit goes to a sheet of the workbook.
ExportEntry ==
    /\ fit_pc = "export"
    /\ widx <= Len(fit_results)
    /\ disk' = disk \cup {ReportFile(out_dir, fit_results[widx].key)}
    /\ sheets' = sheets \cup {fit_results[widx].key}
    /\ widx' = widx + 1
    /\ UNCHANGED <<fit_pc, biomass_df, wavelengths, x0, xmin, out_dir, fit_results, fit_status>>
    /\ UNCHANGED <<tecanVars, dwVars, gzVars>>

\* Line 83: workbook.close() writes best_fit.xlsx.
CloseWorkbook ==
    /\ fit_pc = "export"
    /\ widx > Len(fit_results)
    /\ disk' = disk \cup {BestFitFile(out_dir)}
    /\ fit_pc' = "return"
    /\ UNCHANGED <<biomass_df, wavelengths, x0, xmin, out_dir, widx, fit_results, sheets,
                   fit_status>>
    /\ UNCHANGED <<tecanVars, dwVars, gzVars>>

\* Line 85.
FitReturn ==
    /\ fit_pc = "return"
    /\ fit_status' = "returned"
    /\ fit_pc' = "done"
    /\ UNCHANGED <<biomass_df, wavelengths, x0, xmin, out_dir, widx, fit_results, sheets, disk>>
    /\ UNCHANGED <<tecanVars, dwVars, gzVars>>

FitNextStep == FitNext \/ FitRaise \/ EndOfLoop \/ ExportEntry \/ CloseWorkbook \/ FitReturn

SpecFit == FitInit /\ [][FitNextStep]_vars

\* --------------------------------------------- get_growth_rates: claims

FitDone == fit_pc = "done"
FitReturned == fit_status = "returned"

Requested == {EffWavelengths(wavelengths)[i] : i \in 1..Len(EffWavelengths(wavelengths))}
Columns == DOMAIN biomass_df.cols

\* The fit of channel k as a function of the time column, the values of k, the
\* initial guess and the lower bounds alone.
FitOf(k) ==
    [model |-> "gompertz", t |-> biomass_df.time, y |-> biomass_df.cols[k],
     init |-> EffX0(x0), min |-> EffXmin(xmin)]

\* C2 as stated: when a requested channel fails (it is no column of the table),
\* every other requested channel that is a column still has its fit returned.
C2_OtherChannelsStillFitted ==
    (FitDone /\ ~(Requested \subseteq Columns)) =>
        \A k \in Requested \cap Columns :
            FitReturned /\ HasKey(fit_results, k) /\ Lookup(fit_results, k) = FitOf(k)

\* C3 as stated: get_growth_rates writes nothing to persistent storage, whatever
\* its arguments.
C3_NeverWrites == disk = {}

\* C3 amended: get_growth_rates writes only when out_dir is given (not None, not
\* empty), only into out_dir, and only after every channel was fitted; a call
\* that returns has then written best_fit.xlsx and one report per fitted
\* channel.
C3_WritesOnlyUnderOutDir ==
    /\ ~(out_dir # "None" /\ out_dir # "") => disk = {}
    /\ \A f \in disk : f.dir = out_dir
    /\ disk # {} => Requested \subseteq Columns
    /\ (FitDone /\ FitReturned /\ out_dir # "None" /\ out_dir # "") =>
          disk = {[dir |-> out_dir, name |-> <<"best_fit.xlsx">>]}
                 \cup {[dir |-> out_dir, name |-> <<"lmfit_", k, "_report">>] : k \in Requested}

\* C3 witness: a call with out_dir fitted two channels, wrote their two reports
\* and the workbook, and returned.
C3_Witness ==
    /\ FitDone /\ FitReturned
    /\ out_dir = "results"
    /\ Cardinality(Requested) = 2
    /\ Cardinality(disk) = 3

\* C9: at every point of a call each entry of fit_results is the fit of its own
\* channel, a function of (time, the channel's values, initial guess, lower
\* bounds) alone; the call returns exactly when every requested channel is a
\* column, and then returns one entry per requested channel, whatever the order
\* of the list.
C9_ResultDependsOnOwnChannelOnly ==
    /\ \A i \in 1..Len(fit_results) :
          fit_results[i].key \in Columns /\ fit_results[i].fit = FitOf(fit_results[i].key)
    /\ FitDone => (FitReturned <=> Requested \subseteq Columns)
    /\ (FitDone /\ FitReturned) =>
          /\ {fit_results[i].key : i \in 1..Len(fit_results)} = Requested
          /\ Len(fit_results) = Cardinality(Requested)

\* C9 witness: two channels with different data were fitted, "800" before
\* "680" (the list in the other order is explored as well), and returned.
C9_Witness ==
    /\ FitDone /\ FitReturned
    /\ wavelengths = [none |-> FALSE, list |-> <<"800", "680">>]
    /\ biomass_df.cols["800"] # biomass_df.cols["680"]

\* -------------------------------------------------------------- gompertz

\* Floats are carried as integers in units of 1 / SCALE.
SCALE == 10000

\* np.e
NpE == 27183

Abs(a) == IF a < 0 THEN -a ELSE a
Sign(a) == IF a < 0 THEN -1 ELSE 1

\* a * b and a / b on non-negative operands, split so that no intermediate
\* product leaves 32 bits.
MulPos(a, b) ==
    a * (b \div SCALE) + (a \div SCALE) * (b % SCALE) + ((a % SCALE) * (b % SCALE)) \div SCALE
DivPos(a, b) == (a \div b) * SCALE + ((a % b) * SCALE) \div b

MulFx(a, b) == Sign(a) * Sign(b) * MulPos(Abs(a), Abs(b))
DivFx(a, b) == Sign(a) * Sign(b) * DivPos(Abs(a), Abs(b))

\* exp(x) beyond +-ExpCap is 0 or too large to matter at this resolution.
ExpCap == 10 * SCALE

RECURSIVE ExpSeries(_, _, _)
ExpSeries(x, term, n) ==
    IF term = 0 THEN 0 ELSE term + ExpSeries(x, MulPos(term, x) \div n, n + 1)

ExpPos(x) == ExpSeries(IF x > ExpCap THEN ExpCap ELSE x, SCALE, 1)

\* np.exp
Exp(x) == IF x >= 0 THEN ExpPos(x) ELSE (SCALE * SCALE) \div ExpPos(-x)

\* gompertz with the "+ 1" of the inner exponent left out.
gompertzNoShift(t, A, B, C) ==
    MulFx(A, Exp(-Exp(MulFx(DivFx(MulFx(B, NpE), A), C - t))))

\* A * np.exp(-np.exp((B * np.e / A) * (C - t) + 1))
gompertz(t, A, B, C) ==
    MulFx(A, Exp(-Exp(MulFx(DivFx(MulFx(B, NpE), A), C - t) + SCALE)))

GzTimes == {0, 5 * SCALE, 10 * SCALE, 15 * SCALE, 20 * SCALE}
GzA == {SCALE \div 2, SCALE, 2 * SCALE}
GzB == {SCALE \div 10, SCALE \div 2, SCALE}
GzC == {10 * SCALE, 20 * SCALE}

\* gompertz(t, A, B, C) is called.
GzInit ==
    /\ g_pc = "call"
    /\ g_t \in GzTimes /\ g_A \in GzA /\ g_B \in GzB /\ g_C \in GzC
    /\ g_val = 0
    /\ TecanIdle /\ DwIdle /\ FitIdle

\* Line 13.
Evaluate ==
    /\ g_pc = "call"
    /\ g_val' = gompertz(g_t, g_A, g_B, g_C)
    /\ g_pc' = "done"
    /\ UNCHANGED <<g_t, g_A, g_B, g_C>>
    /\ UNCHANGED <<tecanVars, dwVars, fitVars>>

GzNext == Evaluate

SpecGompertz == GzInit /\ [][GzNext]_vars

\* ------------------------------------------------------ gompertz: claims

AtLiteralParameters ==
    /\ g_pc = "done"
    /\ g_A = SCALE /\ g_B = SCALE \div 2 /\ g_C = 10 * SCALE
    /\ g_t = g_C

\* The tolerance 1e-3.
Tolerance == SCALE \div 1000

\* C10 as stated: gompertz(t = C; A = 1.0, B = 0.5, C = 10.0) is 0.3679 * A
\* within 1e-3.
C10_ValueAtC_Is_0_3679 ==
    AtLiteralParameters =>
        Abs(g_val - MulFx(g_A, (3679 * SCALE) \div 10000)) <= Tolerance

\* C10 amended: gompertz(t = C; A = 1.0, B = 0.5, C = 10.0) is 0.0660 * A
\* (A * exp(-e)) within 1e-3.
C10_ValueAtC_Is_0_0660 ==
    AtLiteralParameters =>
        Abs(g_val - MulFx(g_A, (660 * SCALE) \div 10000)) <= Tolerance

\* C10 witness: the model was evaluated at t = C with the literal parameters and
\* returned a positive value.
C10_Witness == AtLiteralParameters /\ g_val > 0

====
